---- MODULE Spec2Model ----
(***************************************************************************)
(* sqlalchemy_commithooks: the commit-hook dispatcher of commit_mixin.py.  *)
(*                                                                         *)
(* A session owns a _CommitObjects structure (lock + three insertion-      *)
(* ordered dicts obj -> set of mutation kinds).  Mapper events write into  *)
(* it through the listeners built by _build_add_func; the three session    *)
(* event handlers (before_commit, after_commit, after_soft_rollback)       *)
(* dispatch the hooks through _do_commits.  A hook is user code: while it  *)
(* runs the handler is suspended (pc = "hook"), mapper events may arrive,  *)
(* and the hook either returns or raises.                                  *)
(***************************************************************************)
EXTENDS Integers, Sequences, FiniteSets, TLC

\* ------------------------------------------------------------------ bounds

\* mapper events (after_insert / after_update / after_delete) the engine raises
MaxEvents == 2
\* session lifecycle signals (before_commit, after_commit, after_soft_rollback)
MaxSignals == 4
\* hooks that raise, and flushes that fail
MaxRaises == 1

\* --------------------------------------------------------------- universe

Sessions == {"A", "B"}
Objs == {"o1", "o2"}
None == "None"

\* for type_ in ['insert', 'update', 'delete']
Types == <<"insert", "update", "delete">>
Actions == {Types[i] : i \in 1..Len(Types)}
\* the attributes of _CommitObjects that hold objects
Times == {"before", "after", "failed"}

\* A hook name such as before_commit_from_insert, as m.split('_') sees it.
HookName(time, action) == <<time, "commit", "from", action>>

\* CommitMixin.__dict__ restricted to the names containing '_commit_from_'
_lookup_hooks == {HookName(t, a) : t \in Times, a \in Actions}

\* The entity types of the model: the hook methods each class body defines,
\* and each class's method resolution order.  "Full" overrides the nine
\* hooks; "Data" overrides before_commit_from_insert and
\* after_commit_from_delete (as TestQueriesAtCommit.Data does).
ClassDict ==
    [CommitMixin |-> _lookup_hooks,
     Full        |-> _lookup_hooks,
     Data        |-> {HookName("before", "insert"), HookName("after", "delete")}]

MRO ==
    [CommitMixin |-> <<"CommitMixin">>,
     Full        |-> <<"Full", "CommitMixin">>,
     Data        |-> <<"Data", "CommitMixin">>]

\* the class of each object: o1 is a Full, o2 a Data
class_of == [o \in Objs |-> IF o = "o1" THEN "Full" ELSE "Data"]

\* getattr(cls, hook): the function object found first along the MRO,
\* identified by the class whose body defines it.
getattr(cls, hook) ==
    LET m == MRO[cls]
        i == CHOOSE i \in 1..Len(m) :
                 /\ hook \in ClassDict[m[i]]
                 /\ \A j \in 1..(i - 1) : hook \notin ClassDict[m[j]]
    IN  <<m[i], hook>>

\* CommitMixin._overridden_hooks
_overridden_hooks(cls) ==
    {hook \in _lookup_hooks : getattr("CommitMixin", hook) # getattr(cls, hook)}

\* CommitMixin._register_hooks: for each method name, time = tmp[0] and
\* action = tmp[3]; a listener built by _build_add_func(time, action) is
\* installed on the class for the mapper event after_{action}.
_register_hooks(methods) == {<<m[1], m[4]>> : m \in methods}

\* __init_subclass__: the listeners installed for a class
listeners(cls) == _register_hooks(_overridden_hooks(cls))

\* ------------------------------------------------------------------ state

VARIABLES
    sess,            \* per session: the SessionMixin object and its control state
    engine,          \* per session: "open", or "committing" between a before_commit
                     \*   that returned and the commit's outcome
    object_session,  \* object_session(obj) for every object
    live,            \* the sessions that have been constructed
    method_calls,    \* per session: the hooks invoked on its objects, in order
    hist,            \* per session: bookkeeping about the current commit attempt
    listener_log,    \* the mapper events whose listener could not reach a
                     \*   SessionMixin, with what the listener did
    class_table,     \* the CommitMixin subclasses defined while the model runs
    events_left, signals_left, raises_left

vars == <<sess, engine, object_session, live, method_calls, hist, listener_log,
          class_table, events_left, signals_left, raises_left>>

\* ------------------------------------------------- dict of sets (defaultdict)

\* An insertion-ordered dict obj -> set is a sequence of [obj, types] items.
Keys(d) == {d[i].obj : i \in 1..Len(d)}

Get(d, obj) ==
    IF obj \in Keys(d)
    THEN (CHOOSE i \in 1..Len(d) : d[i].obj = obj)
    ELSE 0

TypesOf(d, obj) == IF obj \in Keys(d) THEN d[Get(d, obj)].types ELSE {}

\* DictAdd as a list of (obj, action) records would behave: a new item
\* for every call
DictAdd_list(d, obj, action) ==
    Append(d, [obj |-> obj, types |-> {action}])

\* objects[obj].add(action) on a defaultdict(set)
DictAdd(d, obj, action) ==
    IF obj \in Keys(d)
    THEN [d EXCEPT ![Get(d, obj)].types = @ \cup {action}]
    ELSE Append(d, [obj |-> obj, types |-> {action}])

\* the (action, obj) pairs a dict holds
Pairs(d) == UNION {{<<a, d[i].obj>> : a \in d[i].types} : i \in 1..Len(d)}

\* ------------------------------------------------------------ _CommitObjects

\* _CommitObjects.__init__
_CommitObjects ==
    [lock |-> FALSE, before |-> <<>>, after |-> <<>>, failed |-> <<>>]

NoFrame == [time |-> None, ti |-> 0, oi |-> 0, n |-> 0]

\* SessionMixin.__init__ (transaction is the class attribute until the
\* engine or _tmp_transaction assigns it; handles are numbered, 0 the
\* session's own)
NewSession ==
    [_commit_objects            |-> _CommitObjects,
     _after_failed_commit_active |-> FALSE,
     transaction                |-> 0,
     current_transaction        |-> None,
     transactions_created       |-> 0,
     pc                         |-> "idle",
     frame                      |-> NoFrame]

\* ------------------------------------------------------------- the listeners

\* _add_before_commit_object without the lock test
_add_before_commit_object_unlocked(S, obj, action) ==
    [S EXCEPT !._commit_objects.before = DictAdd(@, obj, action)]

_add_before_commit_object(S, obj, action) ==
    IF ~S._commit_objects.lock
    THEN [S EXCEPT !._commit_objects.before = DictAdd(@, obj, action)]
    ELSE S

_add_after_commit_object(S, obj, action) ==
    IF ~S._commit_objects.lock
    THEN [S EXCEPT !._commit_objects.after = DictAdd(@, obj, action)]
    ELSE S

_add_failed_commit_object(S, obj, action) ==
    IF ~S._commit_objects.lock
    THEN [S EXCEPT !._commit_objects.failed = DictAdd(@, obj, action)]
    ELSE S

\* add_object calling _add_before_commit_object whatever its time
add_object_before_only(S, time, action, obj) ==
    _add_before_commit_object(S, obj, action)

\* _build_add_func(time, action): add_object calls the session's
\* _add_{time}_commit_object(object, action)
add_object(S, time, action, obj) ==
    CASE time = "before" -> _add_before_commit_object(S, obj, action)
      [] time = "after"  -> _add_after_commit_object(S, obj, action)
      [] time = "failed" -> _add_failed_commit_object(S, obj, action)

\* The engine raising after_{action} for obj: every listener installed on
\* the object's class for that event runs.
RECURSIVE RunListeners(_, _, _, _)
RunListeners(S, ts, action, obj) ==
    IF ts = {} THEN S
    ELSE LET t == CHOOSE t \in ts : TRUE
         IN  RunListeners(add_object(S, t, action, obj), ts \ {t}, action, obj)

ListenerTimes(obj, action) ==
    {t \in Times : <<t, action>> \in listeners(class_of[obj])}

\* ------------------------------------------------------------------ dispatch

Cursor(S, time) ==
    [time |-> time, ti |-> 1, oi |-> 0, n |-> Len(S._commit_objects[time])]

\* _do_commits with its loops exchanged: for each object, for each type
RECURSIVE ScanByObject(_, _, _, _)
ScanByObject(S, c, o, t) ==
    LET objects == S._commit_objects[c.time]
    IN  IF o > Len(objects)
        THEN [S EXCEPT !._commit_objects[c.time] = <<>>,
                       !.pc = "ret", !.frame = NoFrame]
        ELSE IF t > Len(Types)
        THEN ScanByObject(S, c, o + 1, 1)
        ELSE IF Types[t] \in objects[o].types
        THEN [S EXCEPT !.pc = "hook", !.frame = [c EXCEPT !.ti = t, !.oi = o]]
        ELSE ScanByObject(S, c, o, t + 1)

_do_commits_by_object(S, c) ==
    IF c.oi = 0 THEN ScanByObject(S, c, 1, 1)
    ELSE ScanByObject(S, c, c.oi, c.ti + 1)

\* _do_commits without its final objects.clear()
RECURSIVE _do_commits_no_clear(_, _)
_do_commits_no_clear(S, c) ==
    LET objects == S._commit_objects[c.time]
    IN  IF c.ti > Len(Types)
        THEN [S EXCEPT !.pc = "ret", !.frame = NoFrame]
        ELSE IF Len(objects) # c.n
        THEN [S EXCEPT !.pc = "exc", !.frame = NoFrame]
        ELSE IF c.oi + 1 > Len(objects)
        THEN _do_commits_no_clear(S, [c EXCEPT !.ti = @ + 1, !.oi = 0,
                                               !.n = Len(objects)])
        ELSE IF Types[c.ti] \in objects[c.oi + 1].types
        THEN [S EXCEPT !.pc = "hook", !.frame = [c EXCEPT !.oi = @ + 1]]
        ELSE _do_commits_no_clear(S, [c EXCEPT !.oi = @ + 1])

\* _do_commits, from the position after cursor c: runs to the next hook
\* call (pc "hook", the frame naming the call), to the end of the method
\* (objects.clear(), pc "ret"), or to the RuntimeError a dict raises when
\* its size changed under an iterator (pc "exc").
RECURSIVE _do_commits(_, _)
_do_commits(S, c) ==
    LET objects == S._commit_objects[c.time]
    IN  IF c.ti > Len(Types)
        THEN [S EXCEPT !._commit_objects[c.time] = <<>>,
                       !.pc = "ret", !.frame = NoFrame]
        ELSE IF Len(objects) # c.n
        THEN [S EXCEPT !.pc = "exc", !.frame = NoFrame]
        ELSE IF c.oi + 1 > Len(objects)
        THEN _do_commits(S, [c EXCEPT !.ti = @ + 1, !.oi = 0, !.n = Len(objects)])
        ELSE IF Types[c.ti] \in objects[c.oi + 1].types
        THEN [S EXCEPT !.pc = "hook", !.frame = [c EXCEPT !.oi = @ + 1]]
        ELSE _do_commits(S, [c EXCEPT !.oi = @ + 1])

\* _tmp_transaction yielding the session without a new SessionTransaction
_tmp_transaction_reusing(S) ==
    [S EXCEPT !.current_transaction = S.transaction]

\* _tmp_transaction up to its yield
_tmp_transaction(S) ==
    [S EXCEPT !.current_transaction = S.transaction,
              !.transaction = S.transactions_created + 1,
              !.transactions_created = @ + 1]

\* _tmp_transaction after its yield
_tmp_transaction_exit(S) ==
    [S EXCEPT !.transaction = S.current_transaction,
              !.current_transaction = None]

\* Each method below is entered either by its caller (resume = FALSE) or
\* when the hook it is suspended in returns (resume = TRUE), and runs to
\* the next hook call, to its end, or to an exception.

\* _do_before_commits without self._commit_objects.lock = True
_do_before_commits_no_lock(S, resume) ==
    IF resume
    THEN _do_commits(S, S.frame)
    ELSE _do_commits(S, Cursor(S, "before"))

_do_before_commits(S, resume) ==
    IF resume
    THEN _do_commits(S, S.frame)
    ELSE LET S1 == [S EXCEPT !._commit_objects.lock = TRUE]
         IN  _do_commits(S1, Cursor(S1, "before"))

\* _do_after_commits dispatching the bucket of _do_before_commits
_do_after_commits_before_bucket(S, resume) ==
    LET S1 == IF resume THEN S ELSE _tmp_transaction(S)
        R  == _do_commits(S1, IF resume THEN S1.frame ELSE Cursor(S1, "before"))
    IN  IF R.pc = "ret"
        THEN [_tmp_transaction_exit(R) EXCEPT !._commit_objects.failed = <<>>,
                                              !._commit_objects.lock = FALSE]
        ELSE R

\* _do_after_commits without self._commit_objects.lock = False
_do_after_commits_stays_locked(S, resume) ==
    LET S1 == IF resume THEN S ELSE _tmp_transaction(S)
        R  == _do_commits(S1, IF resume THEN S1.frame ELSE Cursor(S1, "after"))
    IN  IF R.pc = "ret"
        THEN [_tmp_transaction_exit(R) EXCEPT !._commit_objects.failed = <<>>]
        ELSE R

\* _do_after_commits without self._commit_objects.failed.clear()
_do_after_commits_keeps_failed(S, resume) ==
    LET S1 == IF resume THEN S ELSE _tmp_transaction(S)
        R  == _do_commits(S1, IF resume THEN S1.frame ELSE Cursor(S1, "after"))
    IN  IF R.pc = "ret"
        THEN [_tmp_transaction_exit(R) EXCEPT !._commit_objects.lock = FALSE]
        ELSE R

_do_after_commits(S, resume) ==
    LET S1 == IF resume THEN S ELSE _tmp_transaction(S)
        R  == _do_commits(S1, IF resume THEN S1.frame ELSE Cursor(S1, "after"))
    IN  IF R.pc = "ret"
        THEN [_tmp_transaction_exit(R) EXCEPT !._commit_objects.failed = <<>>,
                                              !._commit_objects.lock = FALSE]
        ELSE R

\* _do_failed_commits without self._commit_objects.after.clear()
_do_failed_commits_keeps_after(S, resume) ==
    LET S1 == IF resume THEN S ELSE _tmp_transaction(S)
        R  == _do_commits(S1, IF resume THEN S1.frame ELSE Cursor(S1, "failed"))
    IN  IF R.pc = "ret"
        THEN [_tmp_transaction_exit(R) EXCEPT !._commit_objects.lock = FALSE]
        ELSE R

_do_failed_commits(S, resume) ==
    LET S1 == IF resume THEN S ELSE _tmp_transaction(S)
        R  == _do_commits(S1, IF resume THEN S1.frame ELSE Cursor(S1, "failed"))
    IN  IF R.pc = "ret"
        THEN [_tmp_transaction_exit(R) EXCEPT !._commit_objects.after = <<>>,
                                              !._commit_objects.lock = FALSE]
        ELSE R

\* before_commit setting _after_failed_commit_active after the dispatch
before_commit_flag_last(S, resume) ==
    LET R == _do_before_commits(S, resume)
    IN  IF R.pc = "ret"
        THEN [R EXCEPT !._after_failed_commit_active = TRUE]
        ELSE R

\* before_commit after session.flush() has returned
before_commit(S, resume) ==
    IF resume
    THEN _do_before_commits(S, TRUE)
    ELSE _do_before_commits([S EXCEPT !._after_failed_commit_active = TRUE], FALSE)

after_commit(S, resume) ==
    IF resume
    THEN _do_after_commits(S, TRUE)
    ELSE _do_after_commits([S EXCEPT !._after_failed_commit_active = FALSE], FALSE)

\* after_failed_commit discarding what the buckets hold when
\* _after_failed_commit_active is false
after_failed_commit_clearing(S, resume) ==
    LET R == IF resume \/ S._after_failed_commit_active
             THEN _do_failed_commits(S, resume)
             ELSE [S EXCEPT !.pc = "ret",
                            !._commit_objects.before = <<>>,
                            !._commit_objects.after = <<>>,
                            !._commit_objects.failed = <<>>]
    IN  IF R.pc = "ret"
        THEN [R EXCEPT !._after_failed_commit_active = FALSE]
        ELSE R

\* after_failed_commit without the test of _after_failed_commit_active
after_failed_commit_always(S, resume) ==
    LET R == _do_failed_commits(S, resume)
    IN  IF R.pc = "ret"
        THEN [R EXCEPT !._after_failed_commit_active = FALSE]
        ELSE R

after_failed_commit(S, resume) ==
    LET R == IF resume \/ S._after_failed_commit_active
             THEN _do_failed_commits(S, resume)
             ELSE [S EXCEPT !.pc = "ret"]
    IN  IF R.pc = "ret"
        THEN [R EXCEPT !._after_failed_commit_active = FALSE]
        ELSE R

\* propagate as it would be with the lock released in a finally clause
propagate_unlocking(S) ==
    [S EXCEPT !.pc = "idle", !.frame = NoFrame, !.current_transaction = None,
              !._commit_objects.lock = FALSE]

\* propagate as it would be if _do_commits dropped each entry it had
\* processed: the kinds before the one being dispatched are gone, and so is
\* that kind for the objects before the one whose hook raised
propagate_dropping_processed(S) ==
    LET t == S.frame.time
        d == S._commit_objects[t]
        done == {Types[k] : k \in 1..(S.frame.ti - 1)}
        left == [i \in 1..Len(d) |->
                    [obj |-> d[i].obj,
                     types |-> IF i < S.frame.oi
                               THEN d[i].types \ (done \cup {Types[S.frame.ti]})
                               ELSE d[i].types \ done]]
        keep == {i \in 1..Len(d) : left[i].types # {}}
        F[n \in 0..Len(d)] ==
            IF n = 0 THEN <<>>
            ELSE IF n \in keep THEN Append(F[n - 1], left[n]) ELSE F[n - 1]
    IN  [S EXCEPT !.pc = "idle", !.frame = NoFrame,
                  !.current_transaction = None,
                  !._commit_objects[t] = IF S.frame.time = None THEN @
                                         ELSE F[Len(d)]]

\* An exception leaving a hook (or _do_commits): nothing between the hook
\* and the caller of the session event catches it or runs on the way out.
propagate(S) ==
    [S EXCEPT !.pc = "idle", !.frame = NoFrame, !.current_transaction = None]

\* The handler suspended in a hook, resumed
Resume(S) ==
    CASE S.frame.time = "before" -> before_commit(S, TRUE)
      [] S.frame.time = "after"  -> after_commit(S, TRUE)
      [] S.frame.time = "failed" -> after_failed_commit(S, TRUE)

\* What a handler's run leaves: suspended in a hook, returned, or raised
Settle(R) ==
    CASE R.pc = "hook" -> R
      [] R.pc = "ret"  -> [R EXCEPT !.pc = "idle"]
      [] R.pc = "exc"  -> propagate(R)

\* ------------------------------------------------------------ bookkeeping

\* What the properties below need to know about a session's run:
\*   nsig, signal, status, dispatched: the number of lifecycle signals
\*     received, the last one, whether its handler is still running or has
\*     returned ("ok") or raised, and whether it entered a dispatch pass;
\*   attempt, phase: the number of the commit attempt (before_commit
\*     signals so far) and how far that attempt got;
\*   pass: the number of dispatch passes (_do_commits calls) started;
\*   snap: the buckets as they stood when the attempt's before_commit took
\*     the lock;
\*   accepted: the mapper events (action, obj) a listener wrote into a
\*     bucket since the last commit cycle ended; recorded: the (time,
\*     action, obj) entries ever written; dups: the entries written again
\*     while already in their bucket, since the last cycle ended;
\*   dropped: the entries a listener discarded while a before hook ran;
\*   first: for (time, obj), the ordinal of the mapper event that last
\*     added obj as a new key of that bucket;
\*   raised: the times of the hooks that have raised;
\*   clean_before: a before pass has completed and no mapper event has been
\*     written into a bucket since;
\*   intact: the before_commit handler of the attempt has returned and
\*     nothing (flush, hook or dispatch loop) has raised in the attempt since;
\*   txn: session.transaction as it was when the last signal arrived;
\*   flushing: the objects a mapper event was raised for during the flush
\*     before_commit is in;
\*   flush_failed: the (attempt, obj) such that the flush forced by the
\*     attempt's before_commit failed on a statement for obj;
\*   flushed: the mapper events (action, obj) raised during the flush forced
\*     by the last signal, a before_commit;
\*   entry_lock: the lock as it stood when the last signal, a
\*     before_commit, arrived;
\*   after_raise: the last signal arrived when the handler before it, a
\*     before_commit, had ended with an exception leaving its dispatch pass;
\*   kept: _commit_objects as the last after_soft_rollback found it, when it
\*     found _after_failed_commit_active false and no signal other than the
\*     before_commit and after_commit of one commit has arrived since;
\*   untouched: the last signal was such an after_soft_rollback, and its
\*     handler returned leaving _commit_objects as it found it.
NewHist ==
    [nsig         |-> 0,
     signal       |-> None,
     status       |-> None,
     dispatched   |-> FALSE,
     attempt      |-> 0,
     phase        |-> "none",
     pass         |-> 0,
     snap         |-> _CommitObjects,
     accepted     |-> <<>>,
     recorded     |-> {},
     dups         |-> {},
     dropped      |-> {},
     first        |-> [x \in Times \X Objs |-> 0],
     raised       |-> {},
     clean_before |-> FALSE,
     intact       |-> FALSE,
     txn          |-> 0,
     flushing     |-> {},
     flush_failed |-> {},
     flushed      |-> {},
     entry_lock   |-> FALSE,
     after_raise  |-> FALSE,
     kept         |-> _CommitObjects,
     untouched    |-> FALSE]

\* the (time, action, obj) entries the buckets of co hold
Entries(co) ==
    UNION {{<<t, p[1], p[2]>> : p \in Pairs(co[t])} : t \in Times}

SignalOf(time) ==
    CASE time = "before" -> "before_commit"
      [] time = "after"  -> "after_commit"
      [] time = "failed" -> "after_soft_rollback"

\* the hook call a suspended handler is in
CallOf(S, H) ==
    LET obj == S._commit_objects[S.frame.time][S.frame.oi].obj
    IN  [time    |-> S.frame.time,
         type    |-> Types[S.frame.ti],
         obj     |-> obj,
         attempt |-> H.attempt,
         pass    |-> H.pass,
         ord     |-> H.first[<<S.frame.time, obj>>]]

\* A signal arrives at session s
Arrive(H, sig, dispatched) ==
    [H EXCEPT !.nsig = @ + 1, !.signal = sig, !.status = "running",
              !.dispatched = dispatched, !.flushed = {},
              !.entry_lock = FALSE,
              !.after_raise = /\ H.signal = "before_commit"
                              /\ H.status = "raised"
                              /\ H.dispatched,
              !.kept = IF \/ sig = "after_commit"
                          \/ /\ sig = "before_commit"
                             /\ H.signal = "after_soft_rollback"
                             /\ ~H.dispatched
                       THEN @ ELSE _CommitObjects,
              !.untouched = FALSE]

\* A handler's run R of session s, for signal sig, takes effect: the
\* session is left suspended in a hook (the call is logged) or idle.
\* H is the bookkeeping at the start of the run.
Land(s, R, sig, H) ==
    LET cycle_ends == R.pc = "ret" /\ sig # "before_commit" /\ H.dispatched
        H1 == [H EXCEPT
                 !.status = CASE R.pc = "hook" -> "running"
                              [] R.pc = "ret"  -> "ok"
                              [] R.pc = "exc"  -> "raised",
                 !.phase = CASE R.pc = "exc" -> "raised"
                             [] R.pc = "hook" ->
                                    (CASE sig = "before_commit" -> "pre"
                                       [] sig = "after_commit" -> "post"
                                       [] OTHER -> "fail")
                             [] sig = "before_commit" -> "pending"
                             [] sig = "after_commit" -> "committed"
                             [] H.dispatched -> "failed"
                             [] OTHER -> @,
                 !.accepted = IF cycle_ends THEN <<>> ELSE @,
                 !.dups = IF cycle_ends THEN {} ELSE @,
                 !.clean_before =
                     IF R.pc = "ret" /\ sig = "before_commit" THEN TRUE ELSE @,
                 !.intact = CASE R.pc = "exc" -> FALSE
                              [] R.pc = "ret" /\ sig = "before_commit" -> TRUE
                              [] OTHER -> @]
    IN  /\ sess' = [sess EXCEPT ![s] = Settle(R)]
        /\ method_calls' =
               [method_calls EXCEPT ![s] =
                   IF R.pc = "hook" THEN Append(@, CallOf(R, H1)) ELSE @]
        /\ engine' = [engine EXCEPT ![s] =
               IF sig = "before_commit" /\ R.pc = "ret"
               THEN "committing" ELSE "open"]
        /\ hist' = [hist EXCEPT ![s] = H1]

\* ------------------------------------------------------------------ actions

Init ==
    /\ sess = [s \in Sessions |-> NewSession]
    /\ engine = [s \in Sessions |-> "open"]
    /\ object_session = [o \in Objs |-> "A"]
    /\ live = {"A"}
    /\ method_calls = [s \in Sessions |-> <<>>]
    /\ hist = [s \in Sessions |-> NewHist]
    /\ listener_log = <<>>
    /\ class_table = <<>>
    /\ events_left = MaxEvents
    /\ signals_left = MaxSignals
    /\ raises_left = MaxRaises

\* MutationEvent as it would be with one _CommitObjects shared by the
\* sessions (a class attribute instead of one made in __init__)
MutationEvent_shared(obj, action) ==
    LET s  == object_session[obj]
        ts == ListenerTimes(obj, action)
    IN  /\ events_left > 0
        /\ s \in live
        /\ ts # {}
        /\ events_left' = events_left - 1
        /\ sess' = [t \in Sessions |->
               IF t \in live THEN RunListeners(sess[t], ts, action, obj)
               ELSE sess[t]]
        /\ hist' = [hist EXCEPT ![s].accepted = Append(@, <<action, obj>>)]
        /\ UNCHANGED <<class_table, listener_log, engine, object_session, live,
                       method_calls, signals_left, raises_left>>

\* The engine raises the mapper event after_{action} for obj (during a
\* flush: one the application asked for, the one before_commit forces, or
\* one a hook's own queries cause).
MutationEvent(obj, action) ==
    LET s  == object_session[obj]
        ts == ListenerTimes(obj, action)
        S  == sess[s]
        es == {<<t, action, obj>> : t \in ts}
        n  == MaxEvents - events_left + 1
    IN  /\ events_left > 0
        /\ s \in live
        /\ ts # {}
        /\ events_left' = events_left - 1
        /\ sess' = [sess EXCEPT ![s] = RunListeners(S, ts, action, obj)]
        /\ hist' = [hist EXCEPT ![s] =
               IF S._commit_objects.lock
               THEN [@ EXCEPT !.dropped =
                        IF S.pc = "hook" /\ S.frame.time = "before"
                        THEN @ \cup es ELSE @,
                        !.flushing =
                            IF S.pc = "flush" THEN @ \cup {obj} ELSE @,
                        !.flushed =
                            IF S.pc = "flush" THEN @ \cup {<<action, obj>>}
                            ELSE @]
               ELSE [@ EXCEPT
                        !.accepted = Append(@, <<action, obj>>),
                        !.recorded = @ \cup es,
                        !.dups = @ \cup (es \cap Entries(S._commit_objects)),
                        !.first = [x \in Times \X Objs |->
                            IF x[1] \in ts /\ x[2] = obj
                               /\ obj \notin Keys(S._commit_objects[x[1]])
                            THEN n ELSE @[x]],
                        !.clean_before = FALSE,
                        !.flushing =
                            IF S.pc = "flush" THEN @ \cup {obj} ELSE @,
                        !.flushed =
                            IF S.pc = "flush" THEN @ \cup {<<action, obj>>}
                            ELSE @]]
        /\ UNCHANGED <<class_table, listener_log, engine, object_session, live, method_calls,
                       signals_left, raises_left>>

\* before_commit as it would be with the lock taken ahead of session.flush()
BeforeCommit_locking_first(s) ==
    /\ s \in live
    /\ sess[s].pc = "idle"
    /\ engine[s] = "open"
    /\ signals_left > 0
    /\ signals_left' = signals_left - 1
    /\ sess' = [sess EXCEPT ![s].pc = "flush", ![s]._commit_objects.lock = TRUE]
    /\ hist' = [hist EXCEPT ![s] =
           [Arrive(@, "before_commit", TRUE) EXCEPT
               !.attempt = @ + 1, !.phase = "pre", !.intact = FALSE,
               !.txn = sess[s].transaction,
               !.entry_lock = sess[s]._commit_objects.lock]]
    /\ UNCHANGED <<class_table, listener_log, engine, object_session, live,
                   method_calls, events_left, raises_left>>

\* The engine fires before_commit: the handler calls session.flush()
BeforeCommit(s) ==
    /\ s \in live
    /\ sess[s].pc = "idle"
    /\ engine[s] = "open"
    /\ signals_left > 0
    /\ signals_left' = signals_left - 1
    /\ sess' = [sess EXCEPT ![s].pc = "flush"]
    /\ hist' = [hist EXCEPT ![s] =
           [Arrive(@, "before_commit", TRUE) EXCEPT
               !.attempt = @ + 1, !.phase = "pre", !.intact = FALSE,
               !.txn = sess[s].transaction,
               !.entry_lock = sess[s]._commit_objects.lock]]
    /\ UNCHANGED <<class_table, listener_log, engine, object_session, live, method_calls,
                   events_left, raises_left>>

\* session.flush() returns and before_commit goes on
FlushReturns(s) ==
    /\ s \in live
    /\ sess[s].pc = "flush"
    /\ Land(s, before_commit(sess[s], FALSE), "before_commit",
            [hist[s] EXCEPT
                !.pass = @ + 1,
                !.snap = [sess[s]._commit_objects EXCEPT !.lock = TRUE],
                !.flushing = {}])
    /\ UNCHANGED <<class_table, listener_log, object_session, live, events_left,
                   signals_left, raises_left>>

\* session.flush() raises out of before_commit
FlushFails(s) ==
    /\ s \in live
    /\ sess[s].pc = "flush"
    /\ raises_left > 0
    /\ raises_left' = raises_left - 1
    /\ sess' = [sess EXCEPT ![s] = propagate(@)]
    /\ hist' = [hist EXCEPT ![s].phase = "raised", ![s].status = "raised",
                            ![s].dispatched = FALSE, ![s].intact = FALSE,
                            ![s].flushing = {}]
    /\ UNCHANGED <<class_table, listener_log, engine, object_session, live, method_calls,
                   events_left, signals_left>>

\* The engine fires after_commit: only for a commit whose before_commit
\* returned and whose physical commit succeeded
AfterCommit(s) ==
    /\ s \in live
    /\ sess[s].pc = "idle"
    /\ engine[s] = "committing"
    /\ signals_left > 0
    /\ signals_left' = signals_left - 1
    /\ Land(s, after_commit(sess[s], FALSE), "after_commit",
            [Arrive(hist[s], "after_commit", TRUE) EXCEPT
                !.pass = @ + 1, !.txn = sess[s].transaction])
    /\ UNCHANGED <<class_table, listener_log, object_session, live, events_left, raises_left>>

\* The engine fires after_soft_rollback: a failed commit was rolled back,
\* or the application rolled back
AfterSoftRollback(s) ==
    LET active == sess[s]._after_failed_commit_active
        R      == after_failed_commit(sess[s], FALSE)
    IN  /\ s \in live
        /\ sess[s].pc = "idle"
        /\ signals_left > 0
        /\ signals_left' = signals_left - 1
        /\ Land(s, R, "after_soft_rollback",
                [Arrive(hist[s], "after_soft_rollback", active) EXCEPT
                    !.pass = IF active THEN @ + 1 ELSE @,
                    !.txn = sess[s].transaction,
                    !.kept = IF active THEN _CommitObjects
                             ELSE sess[s]._commit_objects,
                    !.untouched =
                        /\ ~active
                        /\ R.pc = "ret"
                        /\ R._commit_objects = sess[s]._commit_objects])
        /\ UNCHANGED <<class_table, listener_log, object_session, live, events_left, raises_left>>

\* The hook a handler called returns, and the handler goes on
HookReturns(s) ==
    /\ s \in live
    /\ sess[s].pc = "hook"
    /\ Land(s, Resume(sess[s]), SignalOf(sess[s].frame.time), hist[s])
    /\ UNCHANGED <<class_table, listener_log, object_session, live, events_left,
                   signals_left, raises_left>>

\* The hook a handler called raises
HookRaises(s) ==
    /\ s \in live
    /\ sess[s].pc = "hook"
    /\ raises_left > 0
    /\ raises_left' = raises_left - 1
    /\ sess' = [sess EXCEPT ![s] = propagate(@)]
    /\ hist' = [hist EXCEPT ![s].phase = "raised", ![s].status = "raised",
                            ![s].raised = @ \cup {sess[s].frame.time},
                            ![s].intact = FALSE]
    /\ UNCHANGED <<class_table, listener_log, engine, object_session, live, method_calls,
                   events_left, signals_left>>

Next ==
    \/ \E obj \in Objs, action \in Actions : MutationEvent(obj, action)
    \/ \E s \in Sessions : BeforeCommit(s)
    \/ \E s \in Sessions : FlushReturns(s)
    \/ \E s \in Sessions : FlushFails(s)
    \/ \E s \in Sessions : AfterCommit(s)
    \/ \E s \in Sessions : AfterSoftRollback(s)
    \/ \E s \in Sessions : HookReturns(s)
    \/ \E s \in Sessions : HookRaises(s)

Spec == Init /\ [][Next]_vars

TypeOK ==
    /\ \A s \in Sessions :
        /\ sess[s].pc \in {"idle", "flush", "hook"}
        /\ sess[s]._commit_objects.lock \in BOOLEAN
        /\ engine[s] \in {"open", "committing"}
    /\ events_left \in 0..MaxEvents
    /\ signals_left \in 0..MaxSignals
    /\ raises_left \in 0..MaxRaises

\* ------------------------------------------- objects outside a SessionMixin

\* a session of sqlalchemy.orm.Session proper: it has no
\* _add_{time}_commit_object method
PlainSession == "sqlalchemy.orm.Session"

\* getattr(object_session(object), method) finds the method: the object's
\* session is a SessionMixin (object_session returns None for an object
\* that is in no session)
HasAddMethod(owner) == owner \in Sessions

\* add_object as it would be with the lookup guarded: nothing happens
add_object_guarded(obj, action) ==
    [obj |-> obj, action |-> action, outcome |-> "ignored"]

\* add_object when getattr(object_session(object), method) fails: the
\* AttributeError leaves the listener
add_object_unowned(obj, action) ==
    [obj |-> obj, action |-> action, outcome |-> "AttributeError"]

\* The engine raises after_{action} for an object whose session is not a
\* SessionMixin, or that has no session: the first listener raises
UntrackedMutationEvent(obj, action) ==
    /\ events_left > 0
    /\ ~HasAddMethod(object_session[obj])
    /\ ListenerTimes(obj, action) # {}
    /\ events_left' = events_left - 1
    /\ listener_log' = Append(listener_log, add_object_unowned(obj, action))
    /\ UNCHANGED <<sess, engine, object_session, live, method_calls, hist,
                   class_table, signals_left, raises_left>>

\* the objects' sessions: at least one object in session "A", at least
\* one in a plain session or in none
Owners ==
    {f \in [Objs -> {"A", PlainSession, None}] :
        /\ \E o \in Objs : f[o] = "A"
        /\ \E o \in Objs : f[o] # "A"}

InitOwners ==
    /\ sess = [s \in Sessions |-> NewSession]
    /\ engine = [s \in Sessions |-> "open"]
    /\ object_session \in Owners
    /\ live = {"A"}
    /\ method_calls = [s \in Sessions |-> <<>>]
    /\ hist = [s \in Sessions |-> NewHist]
    /\ listener_log = <<>>
    /\ class_table = <<>>
    /\ events_left = MaxEvents
    /\ signals_left = MaxSignals
    /\ raises_left = MaxRaises

NextOwners ==
    \/ Next
    \/ \E obj \in Objs, action \in Actions : UntrackedMutationEvent(obj, action)

SpecOwners == InitOwners /\ [][NextOwners]_vars

\* ------------------------------------------- the statement a flush fails on

\* session.flush() raises out of before_commit, the failing statement being
\* one for obj: no mapper event of this flush was raised for obj (the
\* engine raises after_{action} only after the statement succeeded)
FlushFailsOn(s, obj) ==
    /\ s \in live
    /\ sess[s].pc = "flush"
    /\ object_session[obj] = s
    /\ obj \notin hist[s].flushing
    /\ raises_left > 0
    /\ raises_left' = raises_left - 1
    /\ sess' = [sess EXCEPT ![s] = propagate(@)]
    /\ hist' = [hist EXCEPT ![s].phase = "raised", ![s].status = "raised",
                            ![s].dispatched = FALSE, ![s].intact = FALSE,
                            ![s].flushing = {},
                            ![s].flush_failed =
                                @ \cup {<<hist[s].attempt, obj>>}]
    /\ UNCHANGED <<class_table, listener_log, engine, object_session, live, method_calls,
                   events_left, signals_left>>

NextFlush ==
    \/ \E obj \in Objs, action \in Actions : MutationEvent(obj, action)
    \/ \E s \in Sessions : BeforeCommit(s)
    \/ \E s \in Sessions : FlushReturns(s)
    \/ \E s \in Sessions, obj \in Objs : FlushFailsOn(s, obj)
    \/ \E s \in Sessions : AfterCommit(s)
    \/ \E s \in Sessions : AfterSoftRollback(s)
    \/ \E s \in Sessions : HookReturns(s)
    \/ \E s \in Sessions : HookRaises(s)

SpecFlush == Init /\ [][NextFlush]_vars

\* ------------------------------------------------------------ two sessions

\* two sessions constructed, each owning one of the objects; the engine
\* delivers two lifecycle signals fewer than to a session on its own
InitTwo ==
    /\ sess = [s \in Sessions |-> NewSession]
    /\ engine = [s \in Sessions |-> "open"]
    /\ object_session = [o \in Objs |-> IF o = "o1" THEN "A" ELSE "B"]
    /\ live = Sessions
    /\ method_calls = [s \in Sessions |-> <<>>]
    /\ hist = [s \in Sessions |-> NewHist]
    /\ listener_log = <<>>
    /\ class_table = <<>>
    /\ events_left = MaxEvents
    /\ signals_left = MaxSignals - 2
    /\ raises_left = MaxRaises

SpecTwo == InitTwo /\ [][Next]_vars

\* ------------------------------------------------- classes defined at run time

\* classes a run may define, and _register_hooks calls it may make
MaxClasses == 2
MaxRegistrations == 2

\* method names a class body may hold: two hooks of CommitMixin and a name
\* of the same shape that is none of them
BodyNames ==
    {HookName("before", "update"), HookName("before", "insert"),
     HookName("during", "insert")}

\* a class outside the CommitMixin hierarchy (X and Z of
\* TestHookLookup.Multiple) that defines a method named like a hook
MixinDict == {HookName("before", "delete")}

\* the entry of CommitMixin in a method resolution order; classes are
\* numbered from 1 in the order of their definition, the mixin listed among
\* the bases of class k is -k
CommitMixinEntry == [id |-> 0, dict |-> _lookup_hooks]

\* the method resolution order of `class k(base)`, `class k(X, base)` and
\* `class k(base, Z)`: a base listed after the CommitMixin subclass comes
\* after CommitMixin
MROOf(k, body, base_mro, mixin) ==
    <<[id |-> k, dict |-> body]>>
    \o (IF mixin = "first" THEN <<[id |-> 0 - k, dict |-> MixinDict]>> ELSE <<>>)
    \o base_mro
    \o (IF mixin = "last" THEN <<[id |-> 0 - k, dict |-> MixinDict]>> ELSE <<>>)

\* getattr(cls, hook) for a class with method resolution order mro: the
\* function found first, identified by the class that defines it
Resolve(mro, hook) ==
    mro[CHOOSE i \in 1..Len(mro) :
            /\ hook \in mro[i].dict
            /\ \A j \in 1..(i - 1) : hook \notin mro[j].dict].id

\* _overridden_hooks looking only at the class's own __dict__
_overridden_hooks_own_dict(mro) == mro[1].dict \cap _lookup_hooks

\* CommitMixin._overridden_hooks for a class with method resolution order mro
_overridden_hooks_in(mro) ==
    {hook \in _lookup_hooks :
        Resolve(<<CommitMixinEntry>>, hook) # Resolve(mro, hook)}

\* ------------------------------------------------- _register_hooks by name

\* names of the shape {time}_commit_from_{action} a caller may pass to
\* _register_hooks: times and actions the library knows, and one of each
\* that it does not
RegNames ==
    {HookName(t, a) : t \in {"before", "during"}, a \in {"insert", "upsert"}}

\* event.listen(cls, identifier, fn) raises InvalidRequestError when the
\* identifier is no mapper event
event_listen_raises(action) == action \notin Actions

\* CommitMixin._register_hooks(methods), ms being the order in which the
\* loop takes the methods: each listener is installed by event.listen, and
\* the loop ends at the first event.listen that raises
RECURSIVE _register_hooks_from(_, _)
_register_hooks_from(ls, ms) ==
    IF ms = <<>> THEN [listeners |-> ls, raised |-> FALSE]
    ELSE IF event_listen_raises(Head(ms)[4])
    THEN [listeners |-> ls, raised |-> TRUE]
    ELSE _register_hooks_from(ls \cup {<<Head(ms)[1], Head(ms)[4]>>}, Tail(ms))

\* the orders in which a loop may take the elements of a set
Orders(S) ==
    {f \in [1..Cardinality(S) -> S] : \A i, j \in 1..Cardinality(S) :
        f[i] = f[j] => i = j}

\* class k(base): ..., with __init_subclass__ registering the overridden
\* hooks, the loop of _register_hooks taking them in some order ms
DefineClass(base, body, mixin) ==
    LET k   == Len(class_table) + 1
        mro == MROOf(k, body,
                     IF base = 0 THEN <<CommitMixinEntry>>
                     ELSE class_table[base].mro,
                     mixin)
    IN  /\ Len(class_table) < MaxClasses
        /\ \E ms \in Orders(_overridden_hooks_in(mro)) :
               LET R == _register_hooks_from({}, ms)
               IN  class_table' = Append(class_table,
                       [mro |-> mro, hooks |-> _overridden_hooks_in(mro),
                        listeners |-> R.listeners, raised |-> R.raised,
                        calls |-> <<>>])
        /\ UNCHANGED <<sess, engine, object_session, live, method_calls, hist,
                       listener_log, events_left, signals_left, raises_left>>

\* the orders of at most n elements of S
OrdersWithin(S, n) ==
    UNION {Orders(M) : M \in {X \in SUBSET S : Cardinality(X) <= n}}

NextClasses ==
    \E base \in 0..Len(class_table), body \in SUBSET BodyNames,
       mixin \in {"none", "first", "last"} :
           DefineClass(base, body, mixin)

SpecClasses == Init /\ [][NextClasses]_vars

\* the _register_hooks calls made so far, over all classes
RECURSIVE RegistrationsIn(_)
RegistrationsIn(tbl) ==
    IF tbl = <<>> THEN 0 ELSE Len(Head(tbl).calls) + RegistrationsIn(Tail(tbl))

RegistrationsMade == RegistrationsIn(class_table)

\* cls._register_hooks(methods) called on class k
RegisterHooks(k, ms) ==
    LET R == _register_hooks_from(class_table[k].listeners, ms)
    IN  /\ ms # <<>>
        /\ RegistrationsMade < MaxRegistrations
        /\ class_table' = [class_table EXCEPT
               ![k].listeners = R.listeners,
               ![k].calls = Append(@, [methods |-> ms, raised |-> R.raised])]
        /\ UNCHANGED <<sess, engine, object_session, live, method_calls, hist,
                       listener_log, events_left, signals_left, raises_left>>

\* the instance of class k the model flushes
Instance(k) == "x" \o ToString(k)

\* the listeners ls of an event run in turn on session record S: each
\* add_object looks up _add_{time}_commit_object on the session, which
\* raises AttributeError when the session has no such method
RECURSIVE RunRegistered(_, _, _, _)
RunRegistered(S, ls, action, obj) ==
    IF ls = <<>> THEN [S |-> S, raised |-> FALSE]
    ELSE IF Head(ls)[1] \notin Times THEN [S |-> S, raised |-> TRUE]
    ELSE RunRegistered(add_object(S, Head(ls)[1], action, obj), Tail(ls),
                       action, obj)

\* The engine raises after_{action} for the instance of class k, which is
\* in session "A"
RegisteredMutationEvent(k, action, ls) ==
    LET R == RunRegistered(sess["A"], ls, action, Instance(k))
    IN  /\ events_left > 0
        /\ ls # <<>>
        /\ events_left' = events_left - 1
        /\ sess' = [sess EXCEPT !["A"] = R.S]
        /\ listener_log' =
               IF R.raised
               THEN Append(listener_log, add_object_unowned(Instance(k), action))
               ELSE listener_log
        /\ UNCHANGED <<engine, object_session, live, method_calls, hist,
                       class_table, signals_left, raises_left>>

\* class Hook(CommitMixin): pass, as in TestHookRegistration
InitRegister ==
    /\ sess = [s \in Sessions |-> NewSession]
    /\ engine = [s \in Sessions |-> "open"]
    /\ object_session = [o \in Objs |-> "A"]
    /\ live = {"A"}
    /\ method_calls = [s \in Sessions |-> <<>>]
    /\ hist = [s \in Sessions |-> NewHist]
    /\ listener_log = <<>>
    /\ class_table =
           <<[mro |-> MROOf(1, {}, <<CommitMixinEntry>>, "none"),
              hooks |-> {}, listeners |-> {}, raised |-> FALSE,
              calls |-> <<>>]>>
    /\ events_left = MaxEvents
    /\ signals_left = MaxSignals
    /\ raises_left = MaxRaises

NextRegister ==
    \/ \E base \in 0..Len(class_table), body \in SUBSET BodyNames,
          mixin \in {"none", "first", "last"} :
              DefineClass(base, body, mixin)
    \/ \E k \in 1..Len(class_table), ms \in OrdersWithin(RegNames, 2) :
           RegisterHooks(k, ms)
    \/ \E k \in 1..Len(class_table), action \in Actions :
           \E ls \in Orders({l \in class_table[k].listeners : l[2] = action}) :
               RegisteredMutationEvent(k, action, ls)

SpecRegister == InitRegister /\ [][NextRegister]_vars

\* ------------------------------------------------------------- properties

Calls(s) == method_calls[s]

\* the calls of hook {time}_commit_from_{type} on obj logged in an attempt
CallsOf(s, time, type, obj, attempt) ==
    {i \in 1..Len(Calls(s)) :
        /\ Calls(s)[i].time = time /\ Calls(s)[i].type = type
        /\ Calls(s)[i].obj = obj /\ Calls(s)[i].attempt = attempt}

Count(s, time, type, obj, attempt) ==
    Cardinality(CallsOf(s, time, type, obj, attempt))

TypeIndex(type) == CHOOSE i \in 1..Len(Types) : Types[i] = type

\* the entries written into the buckets since the last commit cycle ended
Fresh(s) ==
    UNION {{<<t, hist[s].accepted[i][1], hist[s].accepted[i][2]>> :
               t \in ListenerTimes(hist[s].accepted[i][2], hist[s].accepted[i][1])} :
           i \in 1..Len(hist[s].accepted)}

\* the hook session s is suspended in, as a (time, action, obj) entry
Running(s) ==
    <<sess[s].frame.time, Types[sess[s].frame.ti],
      sess[s]._commit_objects[sess[s].frame.time][sess[s].frame.oi].obj>>

\* this step delivers signal sig to session s
Arrives(s, sig) ==
    /\ hist'[s].nsig = hist[s].nsig + 1
    /\ hist'[s].signal = sig

\* this step is an exception leaving a hook of session s (or the dispatch
\* loop resumed after it)
RaisesInPass(s) ==
    /\ sess[s].pc = "hook"
    /\ hist'[s].status = "raised"

\* this step starts a dispatch pass of session s over the bucket of `time`
StartsPass(s, time) ==
    /\ hist'[s].pass = hist[s].pass + 1
    /\ hist'[s].signal = SignalOf(time)

\* this step ends a dispatch pass of session s over the bucket of `time`
\* with _do_commits returning
CompletesPass(s, time) ==
    /\ hist'[s].signal = SignalOf(time)
    /\ hist'[s].dispatched
    /\ hist'[s].status = "ok"
    /\ hist[s].status # "ok" \/ hist'[s].nsig # hist[s].nsig

\* C1: in a commit attempt whose before_commit and after_commit handlers
\* both returned, an entity recorded for insert in the three buckets had
\* before_commit_from_insert and after_commit_from_insert invoked exactly
\* once each, the before hook first, and failed_commit_from_insert not at all.
C1_SuccessfulCommit ==
    \A s \in Sessions : hist[s].phase = "committed" =>
        \A o \in Objs :
            (\A t \in Times : "insert" \in TypesOf(hist[s].snap[t], o)) =>
                LET n == hist[s].attempt
                IN  /\ Count(s, "before", "insert", o, n) = 1
                    /\ Count(s, "after", "insert", o, n) = 1
                    /\ Count(s, "failed", "insert", o, n) = 0
                    /\ \A i \in CallsOf(s, "before", "insert", o, n),
                          j \in CallsOf(s, "after", "insert", o, n) : i < j

C1_Witness ==
    \E s \in Sessions, o \in Objs :
        /\ hist[s].phase = "committed"
        /\ \A t \in Times : "insert" \in TypesOf(hist[s].snap[t], o)

\* C2: once the failed dispatch of a commit attempt has run to its end (no
\* failed hook having raised), every (entity, kind) of the failed bucket
\* had its failed hook invoked exactly once in that attempt, whatever
\* after_soft_rollback signals followed, and no after hook recorded for
\* the attempt was invoked in it; and, no hook having raised, an after hook
\* is only ever invoked for an entry written since the last cycle ended.
C2_FailedCommit ==
    \A s \in Sessions :
        /\ (hist[s].phase = "failed" /\ "failed" \notin hist[s].raised) =>
              LET n == hist[s].attempt
              IN  /\ \A p \in Pairs(hist[s].snap.failed) :
                         Count(s, "failed", p[1], p[2], n) = 1
                  /\ \A p \in Pairs(hist[s].snap.after) :
                         Count(s, "after", p[1], p[2], n) = 0
        /\ (hist[s].raised = {} /\ sess[s].pc = "hook"
              /\ sess[s].frame.time = "after") => Running(s) \in Fresh(s)

C2_Witness ==
    \E s \in Sessions :
        /\ hist[s].phase = "failed"
        /\ hist[s].raised = {}
        /\ Pairs(hist[s].snap.failed) # {}
        /\ Pairs(hist[s].snap.after) # {}
        /\ hist[s].signal = "after_soft_rollback"
        /\ hist[s].status = "ok"
        /\ ~hist[s].dispatched

\* C3: an after_soft_rollback signal that arrives while
\* _after_failed_commit_active is false invokes no hook.
C3_NoPrematureFailedDispatch ==
    [][\A s \in Sessions :
          (Arrives(s, "after_soft_rollback")
             /\ ~sess[s]._after_failed_commit_active) =>
                /\ method_calls'[s] = method_calls[s]
                /\ sess'[s].pc = "idle"]_vars

C3_Witness ==
    \E s \in Sessions :
        /\ hist[s].signal = "after_soft_rollback"
        /\ hist[s].status = "ok"
        /\ ~hist[s].dispatched
        /\ sess[s]._commit_objects.failed # <<>>
        /\ method_calls[s] = <<>>

\* C4: within one dispatch pass, the hooks are invoked by kind in the order
\* insert, update, delete, and within a kind in the order the entities
\* were first added to the bucket.
C4_DispatchOrder ==
    \A s \in Sessions :
        \A i, j \in 1..Len(Calls(s)) :
            (i < j /\ Calls(s)[i].pass = Calls(s)[j].pass) =>
                /\ TypeIndex(Calls(s)[i].type) <= TypeIndex(Calls(s)[j].type)
                /\ Calls(s)[i].type = Calls(s)[j].type =>
                       Calls(s)[i].ord < Calls(s)[j].ord

\* an insert hook invoked before the delete hook of an entity that was
\* added to the bucket earlier
C4_Witness ==
    \E s \in Sessions :
        \E i, j \in 1..Len(Calls(s)) :
            /\ i < j
            /\ Calls(s)[i].pass = Calls(s)[j].pass
            /\ Calls(s)[i].type = "insert"
            /\ Calls(s)[j].type = "delete"
            /\ Calls(s)[i].obj # Calls(s)[j].obj
            /\ Calls(s)[j].ord < Calls(s)[i].ord

\* C5: a mapper event that arrives while the lock is set leaves the session
\* as it was (buckets unchanged, no error); an entry only ever raised while
\* a before hook ran is in no bucket and no hook was invoked for it.
C5_LockDiscards ==
    [][\A s \in Sessions :
          /\ (events_left' < events_left /\ sess[s]._commit_objects.lock) =>
                 sess'[s] = sess[s]
          /\ \A x \in hist'[s].dropped \ hist'[s].recorded :
                 /\ x \notin Entries(sess'[s]._commit_objects)
                 /\ \A i \in 1..Len(method_calls'[s]) :
                        <<method_calls'[s][i].time, method_calls'[s][i].type,
                          method_calls'[s][i].obj>> # x]_vars

C5_Witness ==
    \E s \in Sessions :
        /\ hist[s].dropped \ hist[s].recorded # {}
        /\ hist[s].phase = "committed"
        /\ sess[s].pc = "idle"

\* C6: an entity has one entry per bucket however often it is recorded, and
\* a dispatch pass that runs to its end has invoked the hook of every
\* (entity, kind) of its bucket exactly once.
C6_Dedup ==
    \A s \in Sessions :
        /\ \A t \in Times :
               LET d == sess[s]._commit_objects[t]
               IN  \A i, j \in 1..Len(d) : d[i].obj = d[j].obj => i = j
        /\ \A i, j \in 1..Len(Calls(s)) :
               (Calls(s)[i].pass = Calls(s)[j].pass
                  /\ Calls(s)[i].type = Calls(s)[j].type
                  /\ Calls(s)[i].obj = Calls(s)[j].obj) => i = j
        /\ hist[s].phase \in {"pending", "committed"} =>
               \A p \in Pairs(hist[s].snap.before) :
                   Count(s, "before", p[1], p[2], hist[s].attempt) = 1
        /\ hist[s].phase = "committed" =>
               \A p \in Pairs(hist[s].snap.after) :
                   Count(s, "after", p[1], p[2], hist[s].attempt) = 1

C6_Witness ==
    \E s \in Sessions :
        \E x \in hist[s].dups :
            /\ x[1] = "before"
            /\ hist[s].phase = "pending"
            /\ <<x[2], x[3]>> \in Pairs(hist[s].snap.before)
            /\ Count(s, "before", x[2], x[3], hist[s].attempt) = 1

\* C7: while no hook has raised, a hook is only invoked for an entry that
\* was written into its bucket since the last commit cycle ended, and at
\* most once per commit attempt.
C7_NoCrossCycle ==
    \A s \in Sessions : hist[s].raised = {} =>
        /\ sess[s].pc = "hook" => Running(s) \in Fresh(s)
        /\ \A i, j \in 1..Len(Calls(s)) :
               (Calls(s)[i].time = Calls(s)[j].time
                  /\ Calls(s)[i].type = Calls(s)[j].type
                  /\ Calls(s)[i].obj = Calls(s)[j].obj
                  /\ Calls(s)[i].attempt = Calls(s)[j].attempt) => i = j

\* insert and commit, then delete and commit: four calls in all
C7_Witness ==
    \E s \in Sessions, o \in Objs :
        /\ hist[s].phase = "committed"
        /\ hist[s].attempt = 2
        /\ [i \in 1..Len(Calls(s)) |->
               <<Calls(s)[i].time, Calls(s)[i].type, Calls(s)[i].obj,
                 Calls(s)[i].attempt>>]
           = << <<"before", "insert", o, 1>>, <<"after", "insert", o, 1>>,
                <<"before", "delete", o, 2>>, <<"after", "delete", o, 2>> >>

\* C8: a dispatch pass that runs to its end leaves its bucket empty, a pass
\* that starts on an empty bucket invokes nothing, and after a completed
\* before pass no before hook is invoked until a mapper event is recorded.
C8_IdempotentRedispatch ==
    [][\A s \in Sessions :
          /\ \A t \in Times :
                /\ CompletesPass(s, t) => sess'[s]._commit_objects[t] = <<>>
                /\ (StartsPass(s, t) /\ sess[s]._commit_objects[t] = <<>>) =>
                       method_calls'[s] = method_calls[s]
          /\ hist'[s].clean_before =>
                /\ sess'[s]._commit_objects.before = <<>>
                /\ ~(sess'[s].pc = "hook" /\ sess'[s].frame.time = "before")]_vars

\* two before passes with nothing recorded in between: the first invoked a
\* hook, the second none
C8_Witness ==
    \E s \in Sessions :
        /\ hist[s].attempt = 2
        /\ hist[s].phase = "pending"
        /\ hist[s].accepted = <<>>
        /\ \E i \in 1..Len(Calls(s)) :
               Calls(s)[i].time = "before" /\ Calls(s)[i].attempt = 1
        /\ \A i \in 1..Len(Calls(s)) : Calls(s)[i].attempt # 2

\* C9: when a hook raises, the handler ends there: no further hook is
\* invoked, and the bucket being dispatched, the other buckets, the lock
\* and _after_failed_commit_active are left as they were.
C9_HookRaisePropagates ==
    [][\A s \in Sessions : RaisesInPass(s) =>
          /\ sess'[s].pc = "idle"
          /\ method_calls'[s] = method_calls[s]
          /\ sess'[s]._commit_objects = sess[s]._commit_objects
          /\ sess'[s]._after_failed_commit_active =
                 sess[s]._after_failed_commit_active]_vars

C9_Witness ==
    \E s \in Sessions :
        /\ hist[s].status = "raised"
        /\ hist[s].signal = "after_commit"
        /\ "after" \in hist[s].raised
        /\ sess[s]._commit_objects.lock
        /\ sess[s]._commit_objects.after # <<>>
        /\ sess[s]._commit_objects.failed # <<>>

\* the calls of the pass session s is in that have returned
Processed(s) ==
    {i \in 1..(Len(Calls(s)) - 1) : Calls(s)[i].pass = hist[s].pass}

\* C10 as claimed: when a hook raises, the entries whose hooks the pass had
\* already processed are gone from the bucket.
C10_PartiallyCleared ==
    [][\A s \in Sessions : RaisesInPass(s) =>
          \A i \in Processed(s) :
              Calls(s)[i].type \notin
                  TypesOf(sess'[s]._commit_objects[Calls(s)[i].time],
                          Calls(s)[i].obj)]_vars

\* C10, amended: when a hook raises, the bucket is left exactly as it was
\* when the pass began, the entries already processed included, and the
\* next pass over it starts again from its first entry.
C10_NotCleared ==
    [][\A s \in Sessions :
          /\ RaisesInPass(s) =>
                /\ sess'[s]._commit_objects[sess[s].frame.time]
                       = sess[s]._commit_objects[sess[s].frame.time]
                /\ \A i \in Processed(s) :
                       Calls(s)[i].type \in
                           TypesOf(sess'[s]._commit_objects[Calls(s)[i].time],
                                   Calls(s)[i].obj)
          /\ \A t \in Times :
                (StartsPass(s, t) /\ sess'[s].pc = "hook") =>
                    \A p \in Pairs(sess[s]._commit_objects[t]) :
                        TypeIndex(p[1]) >= sess'[s].frame.ti]_vars

\* a hook that had returned in a pass cut short by a raise is invoked again
\* by the next pass over the same bucket
C10_Witness ==
    \E s \in Sessions :
        \E i, j \in 1..Len(Calls(s)) :
            /\ i + 1 < j
            /\ Calls(s)[i].pass < Calls(s)[j].pass
            /\ Calls(s)[i + 1].pass = Calls(s)[i].pass
            /\ Calls(s)[i].time = Calls(s)[j].time
            /\ Calls(s)[i].type = Calls(s)[j].type
            /\ Calls(s)[i].obj = Calls(s)[j].obj
            /\ hist[s].raised # {}

\* C11: once an after_soft_rollback handler has returned, whether or not
\* _after_failed_commit_active was set when the signal arrived,
\* _after_failed_commit_active is false and the lock is unset.
C11_FailureSignalResets ==
    \A s \in Sessions :
        (hist[s].signal = "after_soft_rollback" /\ hist[s].status = "ok") =>
            /\ ~sess[s]._after_failed_commit_active
            /\ ~sess[s]._commit_objects.lock

\* the calls of hooks of `time` logged in the current attempt of session s
CallsIn(s, time) ==
    {i \in 1..Len(Calls(s)) :
        Calls(s)[i].time = time /\ Calls(s)[i].attempt = hist[s].attempt}

\* C12: when a commit cycle in which nothing raised has ended (before_commit
\* returned, then the after dispatch or the failed dispatch ran to its end),
\* the three buckets are empty and the lock is unset until the next mapper
\* event is recorded, and no hook of the phase that did not happen was
\* invoked in the cycle although its bucket held entries.
C12_CycleEndsClean ==
    \A s \in Sessions :
        (hist[s].intact /\ hist[s].phase \in {"committed", "failed"}) =>
            /\ hist[s].accepted = <<>> =>
                  /\ \A t \in Times : sess[s]._commit_objects[t] = <<>>
                  /\ ~sess[s]._commit_objects.lock
            /\ hist[s].phase = "committed" => CallsIn(s, "failed") = {}
            /\ hist[s].phase = "failed" => CallsIn(s, "after") = {}

\* a cycle that ended with the failed dispatch while the after bucket held
\* an entry, in a session where a hook had raised in an earlier attempt
C12_Witness ==
    \E s \in Sessions :
        /\ hist[s].intact
        /\ hist[s].phase = "failed"
        /\ hist[s].accepted = <<>>
        /\ hist[s].snap.after # <<>>
        /\ hist[s].snap.failed # <<>>
        /\ hist[s].raised # {}
        /\ \A t \in Times : sess[s]._commit_objects[t] = <<>>

\* C13: once an after or failed dispatch has ended, by return or by a hook
\* raising, session.transaction is again what it was when the dispatch began.
C13_TransactionRestored ==
    \A s \in Sessions :
        (/\ sess[s].pc = "idle"
         /\ hist[s].signal \in {"after_commit", "after_soft_rollback"}
         /\ hist[s].dispatched) =>
            sess[s].transaction = hist[s].txn

\* C14: while an after or failed hook runs, session.transaction is a handle
\* created for this dispatch, different from the one the session held when
\* the signal arrived (which _tmp_transaction has saved); while a before
\* hook runs, session.transaction is the one the session held when
\* before_commit arrived, and no handle has been saved.
C14_HookTransaction ==
    \A s \in Sessions : sess[s].pc = "hook" =>
        IF sess[s].frame.time \in {"after", "failed"}
        THEN /\ sess[s].transaction = sess[s].transactions_created
             /\ sess[s].transaction # hist[s].txn
             /\ sess[s].current_transaction = hist[s].txn
        ELSE /\ sess[s].transaction = hist[s].txn
             /\ sess[s].current_transaction = None

\* a failed hook running in an attempt whose before hook has run
C14_Witness ==
    \E s \in Sessions :
        /\ sess[s].pc = "hook"
        /\ sess[s].frame.time = "failed"
        /\ CallsIn(s, "before") # {}
        /\ sess[s].transaction # hist[s].txn

\* the type cls, or an ancestor of it other than CommitMixin, defines hook
Overrides(cls, hook) ==
    \E k \in 1..Len(MRO[cls]) :
        MRO[cls][k] # "CommitMixin" /\ hook \in ClassDict[MRO[cls][k]]

\* C15: a hook {time}_commit_from_{action} was invoked on an object, or is
\* tracked in a bucket for it, only if the object's type overrides that hook
\* and a mapper event of that action with a listener of that time was
\* recorded for the object while the lock was unset; so an event adds to
\* the buckets of its listeners' times only, and a hook left at its
\* default is neither tracked nor invoked.
C15_OnlyOverriddenRecorded ==
    \A s \in Sessions :
        /\ \A i \in 1..Len(Calls(s)) :
               /\ Overrides(class_of[Calls(s)[i].obj],
                            HookName(Calls(s)[i].time, Calls(s)[i].type))
               /\ <<Calls(s)[i].time, Calls(s)[i].type, Calls(s)[i].obj>>
                      \in hist[s].recorded
        /\ \A x \in Entries(sess[s]._commit_objects) :
               /\ Overrides(class_of[x[3]], HookName(x[1], x[2]))
               /\ x \in hist[s].recorded

\* an object of a type overriding only before_commit_from_insert and
\* after_commit_from_delete, inserted and deleted and committed: exactly
\* those two hooks were invoked
C15_Witness ==
    \E s \in Sessions, o \in Objs :
        /\ ClassDict[class_of[o]] # _lookup_hooks
        /\ hist[s].phase = "committed"
        /\ [i \in 1..Len(Calls(s)) |->
               <<Calls(s)[i].time, Calls(s)[i].type, Calls(s)[i].obj>>]
           = << <<"before", "insert", o>>, <<"after", "delete", o>> >>

\* C16 as claimed: the listener never raises; a mapper event for an object
\* with no session, or with a session that is not a SessionMixin, is a
\* silent no-op.
C16_ListenerNeverRaises ==
    \A i \in 1..Len(listener_log) : listener_log[i].outcome = "ignored"

\* C16, amended: a mapper event for an object that has no session, or whose
\* session is not a SessionMixin, raises AttributeError out of the listener
\* and changes no session's buckets, lock or flag (the other mapper events
\* are those of objects in a SessionMixin session, and log nothing).
C16_UntrackedListenerRaises ==
    [][events_left' < events_left =>
          \/ /\ listener_log' = listener_log
             /\ \E o \in Objs : object_session[o] \in Sessions
          \/ /\ Len(listener_log') = Len(listener_log) + 1
             /\ listener_log'[Len(listener_log')].outcome = "AttributeError"
             /\ object_session[listener_log'[Len(listener_log')].obj]
                    \notin Sessions
             /\ sess' = sess]_vars

\* a listener raised for an object of a plain session and for an object of
\* no session, in a run in which an object of session "A" was committed
C16_Witness ==
    /\ \E i \in 1..Len(listener_log) :
           /\ listener_log[i].outcome = "AttributeError"
           /\ object_session[listener_log[i].obj] \in {PlainSession, None}
    /\ hist["A"].phase = "committed"
    /\ Calls("A") # <<>>

\* the flush forced by the last before_commit of session s failed
FlushFailed(s) ==
    /\ hist[s].signal = "before_commit"
    /\ hist[s].status = "raised"
    /\ ~hist[s].dispatched

\* C17: when the flush forced by before_commit fails (no hook having raised
\* before), _after_failed_commit_active is false, the lock is not set and no
\* before hook was invoked in the attempt; no failed hook is invoked for the
\* attempt by a later rollback; and the object the flush failed on has no
\* hook invoked from then on, in that attempt or a later one.
C17_FailedFlush ==
    \A s \in Sessions :
        /\ (FlushFailed(s) /\ hist[s].raised = {}) =>
               /\ ~sess[s]._after_failed_commit_active
               /\ ~sess[s]._commit_objects.lock
               /\ CallsIn(s, "before") = {}
        /\ hist[s].raised = {} =>
               \A x \in hist[s].flush_failed :
                   \A i \in 1..Len(Calls(s)) :
                       ~(Calls(s)[i].time = "failed"
                           /\ Calls(s)[i].attempt = x[1])
        /\ \A x \in hist[s].flush_failed :
               \A i \in 1..Len(Calls(s)) :
                   Calls(s)[i].obj = x[2] => Calls(s)[i].attempt < x[1]

\* this step is a mapper event recorded for an object of session s, a
\* signal delivered to s, or a hook of s returning or raising
StepOf(s) ==
    \/ hist'[s] # hist[s]
    \/ sess'[s].pc # sess[s].pc
    \/ sess'[s]._commit_objects # sess[s]._commit_objects

\* C18: a mapper event for an object of one session, a signal delivered to
\* it, and its hooks returning or raising leave the buckets, the lock and
\* _after_failed_commit_active of every other session as they were, and
\* invoke no hook of another session's objects.
C18_SessionsIndependent ==
    [][\A s, t \in Sessions : (s # t /\ StepOf(s)) =>
          /\ sess'[t]._commit_objects = sess[t]._commit_objects
          /\ sess'[t]._after_failed_commit_active =
                 sess[t]._after_failed_commit_active
          /\ method_calls'[t] = method_calls[t]]_vars

\* one session, its before hooks invoked, is locked and awaits its
\* commit's outcome while the other is in a before hook of its own commit
C18_Witness ==
    \E s, t \in Sessions :
        /\ s # t
        /\ hist[s].phase = "pending"
        /\ Calls(s) # <<>>
        /\ sess[s]._commit_objects.lock
        /\ sess[s]._after_failed_commit_active
        /\ sess[t].pc = "hook"
        /\ sess[t].frame.time = "before"
        /\ sess[t]._commit_objects.lock
        /\ sess[t]._commit_objects.before # sess[s]._commit_objects.before

\* the name m decodes to a time or an action the library does not know
UnknownName(m) == m[1] \notin Times \/ m[4] \notin Actions

\* C19: the definition of a class whose body holds a method named
\* {time}_commit_from_{action} with an unknown time or an unknown action
\* raises, so does a _register_hooks call given such a name, and no
\* listener fails later, when a mapper event is raised in a flush.
C19_UnknownNameFailsAtRegistration ==
    /\ \A k \in 1..Len(class_table) :
           /\ (\E m \in class_table[k].mro[1].dict : UnknownName(m))
                  => class_table[k].raised
           /\ \A c \in 1..Len(class_table[k].calls) :
                  LET call == class_table[k].calls[c]
                  IN  (\E i \in 1..Len(call.methods) :
                           UnknownName(call.methods[i])) => call.raised
    /\ \A i \in 1..Len(listener_log) :
           listener_log[i].outcome # "AttributeError"

\* the position of CommitMixin in a method resolution order
CommitMixinAt(mro) == CHOOSE i \in 1..Len(mro) : mro[i].id = 0

\* the classes of a method resolution order that define the method hook and
\* precede CommitMixin
DefinedBefore(mro, hook) ==
    {i \in 1..(CommitMixinAt(mro) - 1) : hook \in mro[i].dict}

\* C20: for every class defined, the hooks found overridden are exactly the
\* hook names of CommitMixin that the class itself, an ancestor between it
\* and CommitMixin, or another base listed before the CommitMixin subclass
\* defines; a hook that only CommitMixin or a base after it defines is not
\* among them.
C20_OverriddenHooks ==
    \A k \in 1..Len(class_table) :
        class_table[k].hooks =
            {hook \in _lookup_hooks :
                DefinedBefore(class_table[k].mro, hook) # {}}

\* a class that inherits one override, defines another and gets a third
\* from a base listed first, next to a class whose base listed last defines
\* a hook that is not counted
C20_Witness ==
    \E k, j \in 1..Len(class_table) :
        LET mk == class_table[k].mro
            mj == class_table[j].mro
        IN  /\ \E hook \in class_table[k].hooks :
                   /\ hook \notin mk[1].dict
                   /\ \E i \in DefinedBefore(mk, hook) : mk[i].id > 0
            /\ class_table[k].hooks \cap mk[1].dict # {}
            /\ \E hook \in class_table[k].hooks :
                   \A i \in DefinedBefore(mk, hook) : mk[i].id < 0
            /\ \E i \in (CommitMixinAt(mj) + 1)..Len(mj) :
                   /\ mj[i].id < 0
                   /\ mj[i].dict \cap class_table[j].hooks = {}
                   /\ mj[i].dict \cap _lookup_hooks # {}

\* C21: with the handlers entered by the session's lifecycle signals, the
\* lock is set whenever a hook of any phase is running and from the return
\* of before_commit to the commit's outcome, and the bucket a dispatch pass
\* iterates is, while any of its hooks runs, what it was when before_commit
\* took the lock.
C21_LockHeldWhileDispatching ==
    \A s \in Sessions :
        /\ engine[s] = "committing" => sess[s]._commit_objects.lock
        /\ sess[s].pc = "hook" =>
              /\ sess[s]._commit_objects.lock
              /\ sess[s]._commit_objects[sess[s].frame.time]
                     = hist[s].snap[sess[s].frame.time]
              /\ Len(sess[s]._commit_objects[sess[s].frame.time])
                     = sess[s].frame.n

\* an after hook running, after a mapper event raised while a before hook
\* of the session ran was discarded
C21_Witness ==
    \E s \in Sessions :
        /\ sess[s].pc = "hook"
        /\ sess[s].frame.time = "after"
        /\ hist[s].dropped # {}
        /\ sess[s]._commit_objects.lock

\* C22: when before_commit arrives with the lock unset, every mapper event
\* raised during the flush it forces is written into the bucket of each
\* listener of the object's class, the buckets the before dispatch starts
\* from hold it, and once the handler has returned the before hook of such
\* an event has been invoked exactly once in this attempt.
C22_FlushBeforeLock ==
    \A s \in Sessions :
        (hist[s].signal = "before_commit" /\ ~hist[s].entry_lock) =>
            \A e \in hist[s].flushed :
                /\ sess[s].pc = "flush" =>
                      \A t \in ListenerTimes(e[2], e[1]) :
                          e \in Pairs(sess[s]._commit_objects[t])
                /\ (sess[s].pc = "hook" \/ hist[s].status = "ok") =>
                      \A t \in ListenerTimes(e[2], e[1]) :
                          e \in Pairs(hist[s].snap[t])
                /\ (hist[s].status = "ok"
                        /\ "before" \in ListenerTimes(e[2], e[1])) =>
                      Count(s, "before", e[1], e[2], hist[s].attempt) = 1

\* a before_commit handler that has returned after its flush raised two
\* mapper events, one of them for a class with a before hook and an after
\* hook
C22_Witness ==
    \E s \in Sessions :
        /\ hist[s].signal = "before_commit"
        /\ hist[s].status = "ok"
        /\ ~hist[s].entry_lock
        /\ Cardinality(hist[s].flushed) = 2
        /\ \E e \in hist[s].flushed :
               /\ {"before", "after"} \subseteq ListenerTimes(e[2], e[1])
               /\ Count(s, "before", e[1], e[2], hist[s].attempt) = 1

\* C23: when a before hook raises, _after_failed_commit_active is true and
\* the lock is set; an after_soft_rollback that arrives next enters the
\* failed dispatch, and once its handler has returned every entry the
\* failed bucket held has had its failed hook invoked once, no after hook
\* has been invoked in the attempt, _after_failed_commit_active is false,
\* the lock is unset, and the after and failed buckets are empty until the
\* next mapper event is recorded.
C23_BeforeHookRaise ==
    \A s \in Sessions :
        /\ (/\ hist[s].signal = "before_commit"
            /\ hist[s].status = "raised"
            /\ hist[s].dispatched) =>
               /\ sess[s]._after_failed_commit_active
               /\ sess[s]._commit_objects.lock
        /\ (hist[s].signal = "after_soft_rollback" /\ hist[s].after_raise) =>
               /\ hist[s].dispatched
               /\ hist[s].status = "ok" =>
                     /\ \A e \in Pairs(hist[s].snap.failed) :
                            Count(s, "failed", e[1], e[2], hist[s].attempt) = 1
                     /\ CallsIn(s, "after") = {}
                     /\ hist[s].accepted = <<>> =>
                            /\ sess[s]._commit_objects.after = <<>>
                            /\ sess[s]._commit_objects.failed = <<>>
                     /\ ~sess[s]._after_failed_commit_active
                     /\ ~sess[s]._commit_objects.lock

\* the handler of an after_soft_rollback that followed a raising before
\* hook has returned, the after and the failed bucket having held entries
C23_Witness ==
    \E s \in Sessions :
        /\ hist[s].signal = "after_soft_rollback"
        /\ hist[s].after_raise
        /\ hist[s].status = "ok"
        /\ "before" \in hist[s].raised
        /\ hist[s].snap.after # <<>>
        /\ hist[s].snap.failed # <<>>
        /\ CallsIn(s, "failed") # {}
        /\ hist[s].accepted = <<>>

\* C24: whenever no handler of a session is running, the lock is set
\* exactly when _after_failed_commit_active is true.
C24_LockIffPending ==
    \A s \in Sessions :
        sess[s].pc = "idle" =>
            (sess[s]._commit_objects.lock
                 <=> sess[s]._after_failed_commit_active)

\* C25: the handler of an after_soft_rollback that arrives while
\* _after_failed_commit_active is false returns without entering a
\* dispatch and leaves the lock and the three buckets as it found them;
\* what the buckets held stays in them until the next commit's dispatch,
\* and when the commit that follows succeeds, every entry the before and
\* the after bucket held at the rollback has had its hook invoked exactly
\* once in that commit.
C25_RollbackWithoutPending ==
    \A s \in Sessions :
        /\ (hist[s].signal = "after_soft_rollback" /\ ~hist[s].dispatched) =>
               /\ hist[s].untouched
               /\ hist[s].status = "ok"
               /\ sess[s]._commit_objects.lock = hist[s].kept.lock
               /\ ~sess[s]._after_failed_commit_active
               /\ \A t \in Times :
                      Pairs(hist[s].kept[t])
                          \subseteq Pairs(sess[s]._commit_objects[t])
        /\ (hist[s].signal = "before_commit" /\ sess[s].pc = "flush") =>
               \A t \in Times :
                   Pairs(hist[s].kept[t])
                       \subseteq Pairs(sess[s]._commit_objects[t])
        /\ (hist[s].signal = "after_commit" /\ hist[s].status = "ok") =>
               \A t \in {"before", "after"} :
                   \A e \in Pairs(hist[s].kept[t]) :
                       Count(s, t, e[1], e[2], hist[s].attempt) = 1

\* a commit has succeeded after a commit whose flush failed was rolled
\* back, the before and the after bucket having held entries at the
\* rollback
C25_Witness ==
    \E s \in Sessions :
        /\ hist[s].signal = "after_commit"
        /\ hist[s].status = "ok"
        /\ hist[s].attempt = 2
        /\ hist[s].kept.before # <<>>
        /\ hist[s].kept.after # <<>>
        /\ \A t \in {"before", "after"} :
               \A e \in Pairs(hist[s].kept[t]) :
                   Count(s, t, e[1], e[2], hist[s].attempt) = 1

====
